---- MODULE Spec2Model ----
(***************************************************************************)
(* Land-surface phenology statistics (crop_mask/                           *)
(* deafrica_temporal_statistics.py): allNaN_arg, the per-pixel season      *)
(* metrics of xr_phenology, and the statistic dispatch of xr_phenology and *)
(* temporal_statistics.                                                    *)
(*                                                                         *)
(* A float cell is a tuple: <<>> is NaN, <<v>> is the number v, and a      *)
(* quotient is <<num, den>> (den = 0 with num # 0 is +-inf).  Arrays are   *)
(* functions pixel -> (time index -> cell); time indices are 0-based as in *)
(* the source.                                                             *)
(***************************************************************************)
EXTENDS Integers, Sequences, FiniteSets

VARIABLES fn, da, taxis, dask, method_sos, method_eos, stats, stat,
          pc, stats_dict, computed, ds, k, err, ret

vars == <<fn, da, taxis, dask, method_sos, method_eos, stats, stat,
          pc, stats_dict, computed, ds, k, err, ret>>

(* ------------------------------ bounds -------------------------------- *)
\* time steps of a phenology record
N == 6
\* largest vegetation-index value of a phenology record
MaxVal == 2
\* longest requested statistic list
MaxStats == 2
\* length of the reduced axis of the arrays handed to allNaN_arg on its own
ArgLen == 3
\* largest value of those arrays
ArgMaxVal == 1

\* the spatial grid: two pixels, enough to tell a per-slice quantity from a
\* whole-array one
Pixels == {1, 2}

(* ------------------------------ cells --------------------------------- *)
NaN == <<>>
F(v) == <<v>>
IsNaN(x) == Len(x) = 0
V(x) == x[1]

SetMin(S) == CHOOSE m \in S : \A x \in S : m <= x
SetMax(S) == CHOOSE m \in S : \A x \in S : m >= x
Abs(x) == IF x < 0 THEN -x ELSE x

\* the non-missing values of one slice, and of the whole array
SliceVals(row) == {V(row[i]) : i \in {j \in DOMAIN row : ~IsNaN(row[j])}}
AllVals(a) == UNION {SliceVals(a[s]) : s \in DOMAIN a}

(* ---------------------------- allNaN_arg ------------------------------ *)
\* da.isnull().all(dim)
AllNull(a) == [s \in DOMAIN a |-> \A i \in DOMAIN a[s] : IsNaN(a[s][i])]

\* da.min() / da.max() over the whole array, skipping NaN; NaN when the array
\* holds no value at all
da_min(a) == IF AllVals(a) = {} THEN NaN ELSE F(SetMin(AllVals(a)))
da_max(a) == IF AllVals(a) = {} THEN NaN ELSE F(SetMax(AllVals(a)))

\* a plausible slip: the two sentinels swapped
FillValueSwapped(a, st) ==
    IF st = "max"
    THEN (IF IsNaN(da_max(a)) THEN NaN ELSE F(V(da_max(a)) + 1))
    ELSE (IF IsNaN(da_min(a)) THEN NaN ELSE F(V(da_min(a)) - 1))

\* float(da.min() - 1) for 'max', float(da.max() + 1) for 'min'
FillValue(a, st) ==
    IF st = "max"
    THEN (IF IsNaN(da_min(a)) THEN NaN ELSE F(V(da_min(a)) - 1))
    ELSE (IF IsNaN(da_max(a)) THEN NaN ELSE F(V(da_max(a)) + 1))

\* da.fillna(value): filling with NaN leaves the missing cells missing
fillna(a, value) ==
    [s \in DOMAIN a |-> [i \in DOMAIN a[s] |->
        IF IsNaN(a[s][i]) THEN value ELSE a[s][i]]]

\* index of the first occurrence of the extremum among the non-missing cells
FirstArg(row, st) ==
    LET best == IF st = "max" THEN SetMax(SliceVals(row)) ELSE SetMin(SliceVals(row))
    IN SetMin({i \in DOMAIN row : ~IsNaN(row[i]) /\ V(row[i]) = best})

\* y.argmax(dim, skipna=True) / y.argmin(dim, skipna=True): nanargmax and
\* nanargmin raise ValueError on a slice that is entirely NaN
nanarg(y, st) ==
    IF \E s \in DOMAIN y : SliceVals(y[s]) = {}
    THEN [ok |-> FALSE, err |-> "ValueError: All-NaN slice encountered"]
    ELSE [ok |-> TRUE, val |-> [s \in DOMAIN y |-> FirstArg(y[s], st)]]

allNaN_arg(a, st) ==
    LET mask == AllNull(a)
        y == fillna(a, FillValue(a, st))
        r == nanarg(y, st)
    IN IF ~r.ok THEN r
       ELSE [ok |-> TRUE,
             val |-> [s \in DOMAIN a |-> IF mask[s] THEN NaN ELSE F(r.val[s])]]

(* --------------------------- time axis -------------------------------- *)
TimeIdx == 0 .. (N - 1)

\* .dt.dayofyear of a timestamp counted in days (365-day years)
dayofyear(t) == ((t - 1) % 365) + 1

(* ------------------------ reductions over time ------------------------ *)
\* da.max('time') / da.min('time'): NaN-skipping, NaN for an all-NaN pixel
nanmax(row) == IF SliceVals(row) = {} THEN NaN ELSE F(SetMax(SliceVals(row)))
nanmin(row) == IF SliceVals(row) = {} THEN NaN ELSE F(SetMin(SliceVals(row)))

\* the j-th smallest (1-based) of the non-missing values of a row, with
\* multiplicity
KthSmallest(row, j) ==
    SetMin({v \in SliceVals(row) :
        Cardinality({i \in DOMAIN row : ~IsNaN(row[i]) /\ V(row[i]) <= v}) >= j})

\* .median('time'): nanmedian, the mean of the two middle values for an even
\* count (index values are even integers, so the mean is an integer)
nanmedian(row) ==
    LET m == Cardinality({i \in DOMAIN row : ~IsNaN(row[i])})
    IN IF m = 0 THEN NaN
       ELSE IF m % 2 = 1 THEN F(KthSmallest(row, (m + 1) \div 2))
       ELSE F((KthSmallest(row, m \div 2) + KthSmallest(row, (m \div 2) + 1)) \div 2)

(* --------------------------- differentiate ---------------------------- *)
Quot(a, b, h) == IF IsNaN(a) \/ IsNaN(b) THEN NaN ELSE <<V(a) - V(b), h>>

UniformSpacing(t) == \A i \in 1 .. (N - 1) : t[i] - t[i - 1] = t[1] - t[0]

\* numpy.gradient along time with edge_order = 1: one-sided differences at the
\* two ends, central differences inside (the uniform formula when every
\* spacing is equal, else the second-order non-uniform one).  A NaN operand
\* gives NaN.
gradient(row, t) ==
    LET uniform == UniformSpacing(t)
    IN
    [i \in TimeIdx |->
        IF i = 0 THEN Quot(row[1], row[0], t[1] - t[0])
        ELSE IF i = N - 1 THEN Quot(row[N - 1], row[N - 2], t[N - 1] - t[N - 2])
        ELSE IF uniform THEN Quot(row[i + 1], row[i - 1], 2 * (t[1] - t[0]))
        ELSE LET dx1 == t[i] - t[i - 1]
                 dx2 == t[i + 1] - t[i]
             IN IF IsNaN(row[i - 1]) \/ IsNaN(row[i]) \/ IsNaN(row[i + 1]) THEN NaN
                ELSE << dx1 * dx1 * V(row[i + 1])
                        + (dx2 * dx2 - dx1 * dx1) * V(row[i])
                        - dx2 * dx2 * V(row[i - 1]),
                        dx1 * dx2 * (dx1 + dx2) >>]

differentiate(a, t) == [p \in DOMAIN a |-> gradient(a[p], t)]

(* ------------------------------ where --------------------------------- *)
\* a.where(cond) for a boolean cond
where(a, cond) ==
    [p \in DOMAIN a |-> [i \in DOMAIN a[p] |-> IF cond[p][i] THEN a[p][i] ELSE NaN]]

\* a float array used as a condition is cast to bool: NaN and every non-zero
\* number are True
AsBool(c) == [p \in DOMAIN c |-> [i \in DOMAIN c[p] |-> IsNaN(c[p][i]) \/ c[p][i][1] # 0]]

\* deriv.where(deriv > 0) / deriv.where(deriv < 0) (denominators are positive)
KeepPositive(d) ==
    where(d, [p \in DOMAIN d |-> [i \in DOMAIN d[p] |-> ~IsNaN(d[p][i]) /\ d[p][i][1] > 0]])
KeepNegative(d) ==
    where(d, [p \in DOMAIN d |-> [i \in DOMAIN d[p] |-> ~IsNaN(d[p][i]) /\ d[p][i][1] < 0]])

\* a - median('time'), and fabs of it
Distance(a) ==
    [p \in DOMAIN a |->
        LET median == nanmedian(a[p])
        IN [i \in DOMAIN a[p] |->
              IF IsNaN(a[p][i]) \/ IsNaN(median) THEN NaN
              ELSE F(V(a[p][i]) - V(median))]]
fabs(a) ==
    [p \in DOMAIN a |-> [i \in DOMAIN a[p] |->
        IF IsNaN(a[p][i]) THEN NaN ELSE F(Abs(V(a[p][i])))]]

(* ------------------------- index casts, isel -------------------------- *)
\* what .astype('int16') makes of NaN is undefined in C: 0 where the
\* conversion goes through a 32-bit integer, the 16-bit "indefinite" value
\* otherwise
Int16Min == -32768
NaNCasts == {0, Int16Min}

\* float -> int16 wraps modulo 2^16
int16(x) == ((x + 32768) % 65536) - 32768

\* idx.astype('int16'); c is what the build makes of NaN
astype_int16(idx, c) ==
    [p \in DOMAIN idx |-> IF IsNaN(idx[p]) THEN c ELSE int16(V(idx[p]))]

\* a.isel(time=idx) with a per-pixel index: negative indices count from the
\* end, an index outside [-N, N) raises IndexError.  The result carries the
\* selected value and the selected timestamp.
isel(a, t, idx) ==
    IF \E p \in DOMAIN a : idx[p] < -N \/ idx[p] >= N
    THEN [ok |-> FALSE, err |-> "IndexError: index out of bounds"]
    ELSE [ok |-> TRUE,
          val |-> [p \in DOMAIN a |-> [v |-> a[p][idx[p] % N], time |-> t[idx[p] % N]]]]

(* ------------------------- season metrics ----------------------------- *)
\* vPOS = da.max('time')
_vpos(a) == [p \in DOMAIN a |-> nanmax(a[p])]

\* POS = da.isel(time=da.argmax('time')).time.dt.dayofyear: the day of year of
\* the first time-step holding the maximum, carrying that timestamp
_pos(a, t) ==
    LET r == nanarg(a, "max")
    IN IF ~r.ok THEN r
       ELSE [ok |-> TRUE,
             val |-> [p \in DOMAIN a |->
                        [v |-> dayofyear(t[r.val[p]]), time |-> t[r.val[p]]]]]

\* Trough = da.min('time')
_trough(a) == [p \in DOMAIN a |-> nanmin(a[p])]

\* AOS = vpos - trough
_aos(vpos, trough) ==
    [p \in DOMAIN vpos |->
        IF IsNaN(vpos[p]) \/ IsNaN(trough[p]) THEN NaN ELSE F(V(vpos[p]) - V(trough[p]))]

\* the intermediate arrays of _vsos
greenup(a, t, pos) ==
    where(a, [p \in DOMAIN a |-> [i \in DOMAIN a[p] |-> t[i] < pos[p].time]])
green_deriv(a, t, pos) == differentiate(greenup(a, t, pos), t)
pos_green_deriv(a, t, pos) == KeepPositive(green_deriv(a, t, pos))
pos_greenup(a, t, pos) ==
    LET g == greenup(a, t, pos)
    IN where(g, AsBool(KeepPositive(differentiate(g, t))))

\* the index chosen over the kept points: argmin of the signed distance to
\* their median ('first', 'last'), or of its absolute value ('median')
SeasonIdx(kept, signed) ==
    IF signed THEN allNaN_arg(Distance(kept), "min")
    ELSE allNaN_arg(fabs(Distance(kept)), "min")

\* vSOS: value (and timestamp) at the start of season
_vsos(a, t, pos, method, c) ==
    LET kept == pos_greenup(a, t, pos)
        idx == SeasonIdx(kept, method = "first")
    IN IF ~idx.ok THEN idx ELSE isel(kept, t, astype_int16(idx.val, c))

\* the intermediate arrays of _veos
senesce(a, t, pos) ==
    where(a, [p \in DOMAIN a |-> [i \in DOMAIN a[p] |-> t[i] > pos[p].time]])
senesce_deriv(a, t, pos) == differentiate(senesce(a, t, pos), t)
neg_senesce_deriv(a, t, pos) == KeepNegative(senesce_deriv(a, t, pos))
neg_senesce(a, t, pos) ==
    LET g == senesce(a, t, pos)
    IN where(g, AsBool(KeepNegative(differentiate(g, t))))

\* vEOS: value (and timestamp) at the end of season
_veos(a, t, pos, method, c) ==
    LET kept == neg_senesce(a, t, pos)
        idx == SeasonIdx(kept, method = "last")
    IN IF ~idx.ok THEN idx ELSE isel(kept, t, astype_int16(idx.val, c))

\* SOS / EOS = day of year of the selected timestamp
_sos(vsos) == [p \in DOMAIN vsos |-> dayofyear(vsos[p].time)]
_eos(veos) == [p \in DOMAIN veos |-> dayofyear(veos[p].time)]

\* LOS = eos - sos, and last day-of-year of the record + (eos - sos) where
\* that is negative
_los(t, eos, sos) ==
    [p \in DOMAIN eos |->
        IF eos[p] - sos[p] >= 0 THEN eos[p] - sos[p]
        ELSE dayofyear(t[N - 1]) + (eos[p] - sos[p])]

\* float division: NaN propagates, 0/0 is NaN, x/0 is +-inf
Divide(num, den) ==
    IF IsNaN(num) THEN NaN
    ELSE IF den = 0 /\ V(num) = 0 THEN NaN
    ELSE <<V(num), den>>

Minus(x, y) == IF IsNaN(x) \/ IsNaN(y) THEN NaN ELSE F(V(x) - V(y))

\* ROG = (vpos - vsos) / (pos - sos)
_rog(vpos, vsos, pos, sos) ==
    [p \in DOMAIN vpos |-> Divide(Minus(vpos[p], vsos[p].v), pos[p].v - sos[p])]

\* ROS = (veos - vpos) / (eos - pos)
_ros(veos, vpos, eos, pos) ==
    [p \in DOMAIN vpos |-> Divide(Minus(veos[p].v, vpos[p]), eos[p] - pos[p].v)]

\* da.where(~mask, other=0) with mask = da.isnull().all('time')
ZeroFill(a) ==
    LET mask == AllNull(a)
    IN [p \in DOMAIN a |-> IF mask[p] THEN [i \in DOMAIN a[p] |-> F(0)] ELSE a[p]]

StatNames == {"SOS", "POS", "EOS", "Trough", "vSOS", "vPOS", "vEOS",
              "LOS", "AOS", "ROG", "ROS"}

\* the statistics dictionary from already selected start and end points
StatsDict(a, t, pos, vsos, veos) ==
    LET vpos == _vpos(a)
        trough == _trough(a)
        sos == _sos(vsos)
        eos == _eos(veos)
        los == _los(t, eos, sos)
    IN [SOS    |-> [p \in DOMAIN a |-> F(int16(sos[p]))],
        EOS    |-> [p \in DOMAIN a |-> F(int16(eos[p]))],
        vSOS   |-> [p \in DOMAIN a |-> vsos[p].v],
        vPOS   |-> vpos,
        Trough |-> trough,
        POS    |-> [p \in DOMAIN a |-> F(int16(pos[p].v))],
        vEOS   |-> [p \in DOMAIN a |-> veos[p].v],
        LOS    |-> [p \in DOMAIN a |-> F(int16(los[p]))],
        AOS    |-> _aos(vpos, trough),
        ROG    |-> _rog(vpos, vsos, pos, sos),
        ROS    |-> _ros(veos, vpos, eos, pos)]

\* lines 295-326 of xr_phenology on the volume a0 with time axis t: the
\* statistics dictionary, or the exception raised on the way
PhenologyStats(a0, t, m_sos, m_eos, c) ==
    LET a == ZeroFill(a0)
        pos == _pos(a, t)
    IN IF ~pos.ok THEN pos
       ELSE LET vsos == _vsos(a, t, pos.val, m_sos, c)
            IN IF ~vsos.ok THEN vsos
               ELSE LET veos == _veos(a, t, pos.val, m_eos, c)
                    IN IF ~veos.ok THEN veos
                       ELSE [ok |-> TRUE,
                             val |-> StatsDict(a, t, pos.val, vsos.val, veos.val)]

(* ------------------------------ inputs -------------------------------- *)
\* vegetation-index values: even integers, so that medians stay integers
Values == {2 * j : j \in 0 .. MaxVal}

\* a pixel as it reaches line 295 (complete_smooth = False, or after the
\* external completion and smoothing): gap-free, or missing at every time-step
AllMissing == [i \in TimeIdx |-> NaN]
PixelSeries == [TimeIdx -> {F(v) : v \in Values}] \cup {AllMissing}

\* the shapes of the second pixel: missing, rising to a peak at the last
\* time-step, and peaking at the second time-step
Ramp == [i \in TimeIdx |-> F(IF i = N - 1 THEN 2 * MaxVal ELSE IF i = 0 THEN 0 ELSE 2)]
Hump == [i \in TimeIdx |-> F(IF i = 1 THEN 2 * MaxVal ELSE IF i = 0 THEN 2 ELSE 0)]
Companions == {AllMissing, Ramp, Hump}

\* pixel 1 is any series, pixel 2 one of the shapes
Volumes == {[p \in Pixels |-> IF p = 1 THEN s ELSE c] : s \in PixelSeries, c \in Companions}

\* strictly increasing timestamps in days: evenly spaced within one year,
\* unevenly spaced within one year, and a record that runs over new year
UniformAxis == [i \in TimeIdx |-> 30 * (i + 1)]
UnevenAxis == [i \in TimeIdx |-> 30 * (i + 1) + (IF i = 1 THEN 10 ELSE 0)]
NewYearAxis == [i \in TimeIdx |-> 270 + 30 * (i + 1)]
TimeAxes == {UniformAxis, UnevenAxis, NewYearAxis}

SeqsUpTo(S, n) == UNION {[1 .. m -> S] : m \in 0 .. n}

NoDataset == <<>>
NoDict == <<>>

(* --------------------------- xr_phenology ----------------------------- *)
Raise(e) ==
    /\ pc' = "raised"
    /\ err' = e

\* lines 261-275: the checks made before the calculations
CheckInputs ==
    /\ fn = "xr_phenology"
    /\ pc = "start"
    /\ IF dask THEN Raise("TypeError: dask arrays are not supported")
       ELSE IF method_sos \notin {"median", "first"}
            THEN Raise("ValueError: method_sos")
       ELSE IF method_eos \notin {"median", "last"}
            THEN Raise("ValueError: method_eos")
       ELSE pc' = "checked" /\ err' = err
    /\ UNCHANGED <<fn, da, taxis, dask, method_sos, method_eos, stats, stat,
                   stats_dict, computed, ds, k, ret>>

\* lines 295-326: zero-fill, the eleven statistics, the dictionary
Phenology ==
    /\ fn = "xr_phenology"
    /\ pc = "checked"
    /\ \E c \in NaNCasts :
         LET r == PhenologyStats(da, taxis, method_sos, method_eos, c)
         IN IF r.ok
            THEN /\ stats_dict' = r.val
                 /\ computed' = StatNames
                 /\ pc' = "computed"
                 /\ err' = err
            ELSE /\ Raise(r.err)
                 /\ UNCHANGED <<stats_dict, computed>>
    /\ UNCHANGED <<fn, da, taxis, dask, method_sos, method_eos, stats, stat,
                   ds, k, ret>>

\* a plausible slip: a new key is put first
SetItemFirst(d, name, layer) ==
    IF \E j \in 1 .. Len(d) : d[j].name = name
    THEN [j \in 1 .. Len(d) |->
            IF d[j].name = name THEN [name |-> name, layer |-> layer] ELSE d[j]]
    ELSE <<[name |-> name, layer |-> layer]>> \o d

\* ds[name] = layer: a new key goes last, an existing key keeps its place
SetItem(d, name, layer) ==
    IF \E j \in 1 .. Len(d) : d[j].name = name
    THEN [j \in 1 .. Len(d) |->
            IF d[j].name = name THEN [name |-> name, layer |-> layer] ELSE d[j]]
    ELSE Append(d, [name |-> name, layer |-> layer])

\* line 329: ds = stats_dict[stats[0]].to_dataset(name=stats[0])
InitDataset ==
    /\ fn = "xr_phenology"
    /\ pc = "computed"
    /\ IF Len(stats) = 0
       THEN Raise("IndexError: list index out of range") /\ UNCHANGED <<ds, k>>
       ELSE IF stats[1] \notin DOMAIN stats_dict
            THEN Raise("KeyError") /\ UNCHANGED <<ds, k>>
       ELSE /\ ds' = SetItem(<<>>, stats[1], stats_dict[stats[1]])
            /\ k' = 2
            /\ pc' = "adding"
            /\ err' = err
    /\ UNCHANGED <<fn, da, taxis, dask, method_sos, method_eos, stats, stat,
                   stats_dict, computed, ret>>

\* a plausible slip: the loop uses the result of stats_dict.get(stat) and skips
\* a name that is no key
AddStatSkippingUnknown ==
    /\ fn = "xr_phenology"
    /\ pc = "adding"
    /\ k <= Len(stats)
    /\ ds' = IF stats[k] \in DOMAIN stats_dict
             THEN SetItem(ds, stats[k], stats_dict[stats[k]])
             ELSE ds
    /\ k' = k + 1
    /\ UNCHANGED <<fn, da, taxis, dask, method_sos, method_eos, stats, stat,
                   pc, stats_dict, computed, err, ret>>

\* lines 332-334: one turn of the loop over stats[1:]
AddStat ==
    /\ fn = "xr_phenology"
    /\ pc = "adding"
    /\ k <= Len(stats)
    /\ IF stats[k] \notin DOMAIN stats_dict
       THEN Raise("KeyError") /\ UNCHANGED <<ds, k>>
       ELSE /\ ds' = SetItem(ds, stats[k], stats_dict[stats[k]])
            /\ k' = k + 1
            /\ UNCHANGED <<pc, err>>
    /\ UNCHANGED <<fn, da, taxis, dask, method_sos, method_eos, stats, stat,
                   stats_dict, computed, ret>>

\* line 336: return ds
ReturnDataset ==
    /\ fn = "xr_phenology"
    /\ pc = "adding"
    /\ k > Len(stats)
    /\ ret' = ds
    /\ pc' = "done"
    /\ UNCHANGED <<fn, da, taxis, dask, method_sos, method_eos, stats, stat,
                   stats_dict, computed, ds, k, err>>

NextPhenology == CheckInputs \/ Phenology \/ InitDataset \/ AddStat \/ ReturnDataset

\* xr_phenology with valid arguments on every volume and time axis
Init ==
    /\ fn = "xr_phenology"
    /\ da \in Volumes
    /\ taxis \in TimeAxes
    /\ dask = FALSE
    /\ method_sos \in {"first", "median"}
    /\ method_eos \in {"last", "median"}
    /\ stats = <<"SOS", "LOS">>
    /\ stat = "none"
    /\ pc = "start"
    /\ stats_dict = NoDict
    /\ computed = {}
    /\ ds = <<>>
    /\ k = 0
    /\ err = "none"
    /\ ret = NoDataset

Next == NextPhenology

Spec == Init /\ [][Next]_vars

(* ------------------------ temporal_statistics ------------------------- *)
\* lines 384-401: name -> the hdstats reduction it applies and the harmonic
\* (column) it keeps
TsDict ==
    [discordance   |-> [func |-> "discordance", col |-> -1],
     f_std_n1      |-> [func |-> "fourier_std", col |-> 0],
     f_std_n2      |-> [func |-> "fourier_std", col |-> 1],
     f_std_n3      |-> [func |-> "fourier_std", col |-> 2],
     f_mean_n1     |-> [func |-> "fourier_mean", col |-> 0],
     f_mean_n2     |-> [func |-> "fourier_mean", col |-> 1],
     f_mean_n3     |-> [func |-> "fourier_mean", col |-> 2],
     f_median_n1   |-> [func |-> "fourier_median", col |-> 0],
     f_median_n2   |-> [func |-> "fourier_median", col |-> 1],
     f_median_n3   |-> [func |-> "fourier_median", col |-> 2],
     mean_change   |-> [func |-> "mean_change", col |-> -1],
     median_change |-> [func |-> "median_change", col |-> -1],
     abs_change    |-> [func |-> "mean_abs_change", col |-> -1],
     complexity    |-> [func |-> "complexity", col |-> -1],
     central_diff  |-> [func |-> "mean_central_diff", col |-> -1],
     num_peaks     |-> [func |-> "number_peaks", col |-> -1]]

\* stat_func(da): the reduction is external, so its result is kept as the
\* application itself
TsApply(name, a) == [func |-> TsDict[name].func, col |-> TsDict[name].col, of |-> a]

\* lines 375-401: coordinates, completion of the series, the dictionary
TsPrepare ==
    /\ fn = "temporal_statistics"
    /\ pc = "start"
    /\ pc' = "completed"
    /\ UNCHANGED <<fn, da, taxis, dask, method_sos, method_eos, stats, stat,
                   stats_dict, computed, ds, k, err, ret>>

\* lines 408-416: stats_dict.get(stats[0]), its call, the dataset
TsFirst ==
    /\ fn = "temporal_statistics"
    /\ pc = "completed"
    /\ IF Len(stats) = 0
       THEN Raise("IndexError: list index out of range") /\ UNCHANGED <<ds, k, computed>>
       ELSE IF stats[1] \notin DOMAIN TsDict
            THEN Raise("TypeError: 'NoneType' object is not callable")
                 /\ UNCHANGED <<ds, k, computed>>
       ELSE /\ computed' = computed \cup {stats[1]}
            /\ ds' = SetItem(<<>>, stats[1], TsApply(stats[1], da))
            /\ k' = 2
            /\ pc' = "adding"
            /\ err' = err
    /\ UNCHANGED <<fn, da, taxis, dask, method_sos, method_eos, stats, stat,
                   stats_dict, ret>>

\* lines 418-426: one turn of the loop over stats[1:]
TsAdd ==
    /\ fn = "temporal_statistics"
    /\ pc = "adding"
    /\ k <= Len(stats)
    /\ IF stats[k] \notin DOMAIN TsDict
       THEN Raise("TypeError: 'NoneType' object is not callable")
            /\ UNCHANGED <<ds, k, computed>>
       ELSE /\ computed' = computed \cup {stats[k]}
            /\ ds' = SetItem(ds, stats[k], TsApply(stats[k], da))
            /\ k' = k + 1
            /\ UNCHANGED <<pc, err>>
    /\ UNCHANGED <<fn, da, taxis, dask, method_sos, method_eos, stats, stat,
                   stats_dict, ret>>

\* line 428: return ds
TsReturn ==
    /\ fn = "temporal_statistics"
    /\ pc = "adding"
    /\ k > Len(stats)
    /\ ret' = ds
    /\ pc' = "done"
    /\ UNCHANGED <<fn, da, taxis, dask, method_sos, method_eos, stats, stat,
                   stats_dict, computed, ds, k, err>>

NextTemporal == TsPrepare \/ TsFirst \/ TsAdd \/ TsReturn

(* --------------- the two public functions, any arguments -------------- *)
\* the volumes the calls are made on: both pixels among the shapes
CallVolumes == [Pixels -> Companions]

\* requested names: valid ones, and names outside the vocabulary (a wrong
\* case, a documented name that is no key)
PhenologyRequests == {"SOS", "LOS", "ROG", "sos"}
TemporalRequests == {"num_peaks", "f_std_n1", "complexity", "f_std"}

InitCall ==
    /\ fn \in {"xr_phenology", "temporal_statistics"}
    /\ da \in CallVolumes
    /\ taxis = UniformAxis
    /\ IF fn = "xr_phenology"
       THEN /\ dask \in BOOLEAN
            /\ method_sos \in {"first", "median", "last"}
            /\ method_eos \in {"last", "median", "first"}
            /\ stats \in SeqsUpTo(PhenologyRequests, MaxStats)
       ELSE /\ dask = FALSE
            /\ method_sos = "median"
            /\ method_eos = "median"
            /\ stats \in SeqsUpTo(TemporalRequests, MaxStats)
    /\ stat = "none"
    /\ pc = "start"
    /\ stats_dict = NoDict
    /\ computed = {}
    /\ ds = <<>>
    /\ k = 0
    /\ err = "none"
    /\ ret = NoDataset

NextCall == NextPhenology \/ NextTemporal

SpecCall == InitCall /\ [][NextCall]_vars

(* ------------------------ allNaN_arg on its own ----------------------- *)
ArgCells == {NaN} \cup {F(v) : v \in 0 .. ArgMaxVal}
ArgArrays == [Pixels -> [0 .. (ArgLen - 1) -> ArgCells]]

\* y = allNaN_arg(da, 'time', stat)
CallAllNaNArg ==
    /\ fn = "allNaN_arg"
    /\ pc = "start"
    /\ LET r == allNaN_arg(da, stat)
       IN IF r.ok
          THEN ret' = r.val /\ pc' = "done" /\ err' = err
          ELSE Raise(r.err) /\ ret' = ret
    /\ UNCHANGED <<fn, da, taxis, dask, method_sos, method_eos, stats, stat,
                   stats_dict, computed, ds, k>>

InitArg ==
    /\ fn = "allNaN_arg"
    /\ da \in ArgArrays
    /\ stat \in {"max", "min"}
    /\ taxis = UniformAxis
    /\ dask = FALSE
    /\ method_sos = "median"
    /\ method_eos = "median"
    /\ stats = <<>>
    /\ pc = "start"
    /\ stats_dict = NoDict
    /\ computed = {}
    /\ ds = <<>>
    /\ k = 0
    /\ err = "none"
    /\ ret = NoDataset

NextArg == CallAllNaNArg

SpecArg == InitArg /\ [][NextArg]_vars

(* ====================================================================== *)
(* Properties                                                             *)
(* ====================================================================== *)
Range(f) == {f[x] : x \in DOMAIN f}

\* the slices of the array handed to allNaN_arg that hold a value
HasValue(s) == SliceVals(da[s]) # {}
HasMissing(s) == \E i \in DOMAIN da[s] : IsNaN(da[s][i])

\* ordinary argmax / argmin of a slice without missing values: the least
\* index at which no other entry is larger (smaller)
OrdinaryArg(row, st) ==
    SetMin({i \in DOMAIN row :
        \A j \in DOMAIN row :
            IF st = "max" THEN V(row[j]) <= V(row[i]) ELSE V(row[j]) >= V(row[i])})

\* C1: allNaN_arg(da, dim, stat) with stat in {max, min} never raises, and
\* its result at every slice made only of missing values is the missing
\* marker -- for every input array, one whose slices are all missing included.
C1_AllMissingSliceIsMissing ==
    (fn = "allNaN_arg" /\ pc # "start") =>
        /\ pc = "done"
        /\ \A s \in DOMAIN da : AllNull(da)[s] => IsNaN(ret[s])

PhenologyVocabulary ==
    {"SOS", "POS", "EOS", "Trough", "vSOS", "vPOS", "vEOS", "LOS", "AOS", "ROG", "ROS"}
TemporalVocabulary ==
    {"discordance", "f_std_n1", "f_std_n2", "f_std_n3", "f_mean_n1", "f_mean_n2",
     "f_mean_n3", "f_median_n1", "f_median_n2", "f_median_n3", "mean_change",
     "median_change", "abs_change", "complexity", "central_diff", "num_peaks"}
Vocabulary == IF fn = "xr_phenology" THEN PhenologyVocabulary ELSE TemporalVocabulary

UnknownRequested == \E j \in 1 .. Len(stats) : stats[j] \notin Vocabulary

\* the errors raised for an argument
ArgumentErrors ==
    {"TypeError: dask arrays are not supported", "ValueError: method_sos",
     "ValueError: method_eos", "KeyError",
     "TypeError: 'NoneType' object is not callable"}

\* C4: every argument (input kind, method_sos, method_eos, each requested
\* name) is validated before any statistic is computed: no argument error is
\* raised once a statistic has been computed.
C4_ValidationBeforeComputation ==
    (pc = "raised" /\ err \in ArgumentErrors) => computed = {}

FirstRequest(name) == SetMin({j \in 1 .. Len(stats) : stats[j] = name})

\* C6: for a non-empty list of valid names xr_phenology returns a dataset
\* whose keys are exactly the requested names, in the order requested, each
\* layer being the layer of that name in the full set of eleven statistics
\* of the same input, all of which were computed.
C6_RequestedSubsetInOrder ==
    (fn = "xr_phenology" /\ pc = "done") =>
        /\ {ret[j].name : j \in 1 .. Len(ret)} = Range(stats)
        /\ \A i, j \in 1 .. Len(ret) :
              i < j => FirstRequest(ret[i].name) < FirstRequest(ret[j].name)
        /\ computed = PhenologyVocabulary
        /\ \E c \in NaNCasts :
              LET full == PhenologyStats(da, taxis, method_sos, method_eos, c)
              IN /\ full.ok
                 /\ DOMAIN full.val = PhenologyVocabulary
                 /\ \A j \in 1 .. Len(ret) : ret[j].layer = full.val[ret[j].name]

\* two different valid names were requested, in another order than the
\* dictionary lists them
C6_Witness ==
    /\ fn = "xr_phenology"
    /\ pc = "done"
    /\ stats = <<"LOS", "SOS">>
    /\ Len(ret) = 2
    /\ ret[1].name = "LOS"
    /\ ret[2].name = "SOS"
    /\ ret[1].layer # ret[2].layer

(* --------------------------- season metrics --------------------------- *)
\* the zero-filled volume, its peaks, and the layers of the dictionary
Filled == ZeroFill(da)
Peak == _pos(Filled, taxis).val
Layer(name, p) == stats_dict[name][p]

\* time-steps before the peak whose slope is positive, after it whose slope
\* is negative
RisingPoints(p) ==
    {i \in TimeIdx : ~IsNaN(pos_green_deriv(Filled, taxis, Peak)[p][i])}
FallingPoints(p) ==
    {i \in TimeIdx : ~IsNaN(neg_senesce_deriv(Filled, taxis, Peak)[p][i])}

\* the layers say that time-step i of pixel p was selected
StartsAt(p, i) ==
    /\ Layer("SOS", p) = F(dayofyear(taxis[i]))
    /\ Layer("vSOS", p) = Filled[p][i]
EndsAt(p, i) ==
    /\ Layer("EOS", p) = F(dayofyear(taxis[i]))
    /\ Layer("vEOS", p) = Filled[p][i]

\* C2: where SOS and EOS are defined, LOS >= 0: it is EOS - SOS when that is
\* >= 0 and (day of year of the last time-step) + (EOS - SOS) otherwise, also
\* for a record that runs over new year.
C2_LosNonNegative ==
    (fn = "xr_phenology" /\ pc = "computed") =>
        \A p \in Pixels :
            (~IsNaN(Layer("vSOS", p)) /\ ~IsNaN(Layer("vEOS", p))) =>
                LET d == V(Layer("EOS", p)) - V(Layer("SOS", p))
                    los == V(Layer("LOS", p))
                IN /\ los >= 0
                   /\ los = (IF d >= 0 THEN d ELSE dayofyear(taxis[N - 1]) + d)

\* C3: a pixel without a falling point after its peak gets a missing EOS,
\* vEOS, LOS and ROS (no exception, no day of year, no zero) while its SOS,
\* vSOS and ROG stay defined when it has a rising point; a pixel without a
\* rising point before its peak gets a missing SOS and vSOS.
C3_NoSeasonSideIsMissing ==
    (fn = "xr_phenology" /\ pc \in {"computed", "raised"}) =>
        \A p \in Pixels :
            /\ FallingPoints(p) = {} =>
                  /\ pc = "computed"
                  /\ IsNaN(Layer("EOS", p))
                  /\ IsNaN(Layer("vEOS", p))
                  /\ IsNaN(Layer("LOS", p))
                  /\ IsNaN(Layer("ROS", p))
                  /\ RisingPoints(p) # {} =>
                        /\ ~IsNaN(Layer("SOS", p))
                        /\ ~IsNaN(Layer("vSOS", p))
                        /\ ~IsNaN(Layer("POS", p))
                        /\ ~IsNaN(Layer("ROG", p))
            /\ RisingPoints(p) = {} =>
                  /\ pc = "computed"
                  /\ IsNaN(Layer("SOS", p))
                  /\ IsNaN(Layer("vSOS", p))

IsZeroOrMissing(x) == IsNaN(x) \/ (x[1] = 0 /\ (Len(x) = 2 => x[2] # 0))

\* C7: a volume holding a pixel that is missing at every time-step (the
\* volume made only of such pixels included) does not make xr_phenology
\* raise, and that pixel gets vPOS = Trough = 0, AOS = 0 and ROG, ROS zero or
\* missing.
C7_AllMissingPixel ==
    (fn = "xr_phenology" /\ \E p \in Pixels : da[p] = AllMissing) =>
        /\ pc # "raised"
        /\ pc = "computed" =>
              \A p \in Pixels : da[p] = AllMissing =>
                  /\ Layer("vPOS", p) = F(0)
                  /\ Layer("Trough", p) = F(0)
                  /\ Layer("AOS", p) = F(0)
                  /\ IsZeroOrMissing(Layer("ROG", p))
                  /\ IsZeroOrMissing(Layer("ROS", p))

\* C9: with method_sos = 'first' the start of season is the earliest
\* positive-slope point before the peak, for every pixel that has one; with
\* method_eos = 'last' the end of season is the last negative-slope point
\* after the peak.
C9_FirstRisingLastFalling ==
    (fn = "xr_phenology" /\ pc = "computed") =>
        \A p \in Pixels :
            /\ (method_sos = "first" /\ RisingPoints(p) # {}) =>
                  StartsAt(p, SetMin(RisingPoints(p)))
            /\ (method_eos = "last" /\ FallingPoints(p) # {}) =>
                  EndsAt(p, SetMax(FallingPoints(p)))

\* |value at i - median of the values at the points of S|
FromMedian(p, S, i) ==
    Abs(V(Filled[p][i])
        - V(nanmedian([j \in TimeIdx |-> IF j \in S THEN Filled[p][j] ELSE NaN])))

\* C10: for a pixel with a rising point before its peak and a falling point
\* after it, the start of season is a positive-slope time-step strictly
\* before the peak and the end of season a negative-slope time-step strictly
\* after it; under 'median' it is the one whose value is nearest to the
\* median of the rising (falling) values.
C10_SelectedPointsRiseAndFall ==
    (fn = "xr_phenology" /\ pc = "computed") =>
        \A p \in Pixels :
            (RisingPoints(p) # {} /\ FallingPoints(p) # {}) =>
                /\ \E i \in RisingPoints(p) :
                      /\ StartsAt(p, i)
                      /\ taxis[i] < Peak[p].time
                      /\ method_sos = "median" =>
                            \A j \in RisingPoints(p) :
                                FromMedian(p, RisingPoints(p), i)
                                    <= FromMedian(p, RisingPoints(p), j)
                /\ \E i \in FallingPoints(p) :
                      /\ EndsAt(p, i)
                      /\ taxis[i] > Peak[p].time
                      /\ method_eos = "median" =>
                            \A j \in FallingPoints(p) :
                                FromMedian(p, FallingPoints(p), i)
                                    <= FromMedian(p, FallingPoints(p), j)

====
